---- MODULE Spec2Model ----
(***************************************************************************)
(* Model of the analyzer core of ai-doc-generator                          *)
(* (src/src/core/code_analyzer.py, src/src/models/schemas.py).             *)
(*                                                                         *)
(* A source file is a sequence of lines (definitions, statements, a        *)
(* header comment).  Its text is the rendering of the lines as a sequence  *)
(* of characters; a character occupies one or more bytes in UTF-8.  The    *)
(* syntax tree is the tree the Python grammar yields for that text: node   *)
(* types, ordered children, the "name" and "body" fields, byte offsets     *)
(* into the UTF-8 buffer and 0-based rows.                                 *)
(***************************************************************************)
EXTENDS Integers, Sequences, FiniteSets, TLC

\* ---------------------------------------------------------------- bounds
MaxLines == 4
MaxCalls == 3
WideRunLen == 5
MaxFragLines == 4
MaxOperators == 6
MaxSessionLines == 4
MaxSnippets == 4
MaxConcurrent == 2
MaxFiles == 3

Analyzers == {1, 2}

VARIABLES
  file_content,  \* the source file handed to parse_file (its lines)
  outcome,       \* per analyzer: "idle", or how its last parse_file call ended
  snippets,      \* per analyzer: the list its last parse_file call returned
  path,          \* per analyzer: the file_path of its last parse_file call
  calls,         \* number of parse_file calls made so far, on any analyzer
  fragment,      \* the code handed to the queries on a fragment (its lines)
  answer,        \* the last query on the fragment and what it returned
  parser,        \* per analyzer: self.parser, as __init__ built it
  walk,          \* the recursive method that is running on the tree of fragment
  stack,         \* its call stack: per call, the node and the child to visit next
  visited,       \* the calls made so far: method and node, in call order
  requests,      \* batch_generate: the snippets it is given
  max_concurrent,  \* batch_generate: its max_concurrent argument
  model_available, \* whether the model asked for is in self.models
  batch_start,   \* batch_generate: the loop variable i
  pc,            \* batch_generate: where it stands
  tasks,         \* the generate_documentation calls made so far, one per snippet
  results,       \* batch_generate: its list of results
  pauses,        \* batch_generate: the asyncio.sleep(1) calls it has made
  directory,     \* the files below the directory handed to process_directory
  recursive,     \* process_directory: its recursive argument
  exclude_patterns,  \* process_directory: its exclude_patterns argument
  python_files,  \* process_directory: the sorted list _find_python_files returned
  file_index,    \* process_directory: the position of its loop in python_files
  file_results,  \* process_directory: its dictionary, as (file_path, snippets) pairs
  dir_pc         \* process_directory: where it stands

walkVars == <<walk, stack, visited>>

llmVars ==
  <<requests, max_concurrent, model_available, batch_start, pc, tasks, results,
    pauses>>

dirVars ==
  <<directory, recursive, exclude_patterns, python_files, file_index,
    file_results, dir_pc>>

vars ==
  <<file_content, outcome, snippets, path, calls, fragment, answer, parser,
    walkVars, llmVars, dirVars>>

\* ------------------------------------------------------------- characters
\* Characters are one-character strings; the two tokens below stand for
\* U+00E9 (2 bytes in UTF-8) and U+1F4DD (4 bytes in UTF-8).
EAcute == "U+00E9"
Memo == "U+1F4DD"

\* bytes(file_content, "utf8"): the number of bytes one character occupies
ByteLen(ch) == IF ch = EAcute THEN 2 ELSE IF ch = Memo THEN 4 ELSE 1

\* number of bytes of the first n characters of s: one per character, and
\* the further bytes of the 2-byte and of the 4-byte characters
Utf8LenUpTo(s, n) ==
  n + Cardinality({i \in 1..n : ByteLen(s[i]) = 2})
    + 3 * Cardinality({i \in 1..n : ByteLen(s[i]) = 4})

\* len(bytes(s, "utf8"))
Utf8Len(s) == Utf8LenUpTo(s, Len(s))

Min(a, b) == IF a <= b THEN a ELSE b

\* Python's s[i:j] on a str, 0 <= i, 0 <= j: indices count characters
StrSlice(s, i, j) == SubSeq(s, i + 1, Min(j, Len(s)))

IsSpace(ch) == ch \in {" ", "\n"}

\* str.strip() leaves nothing: every character is whitespace
IsBlank(s) == \A i \in 1..Len(s) : IsSpace(s[i])

\* s.strip(chars): first and last index of what is left of s[i..j]
RECURSIVE StripLeft(_, _, _), StripRight(_, _, _, _)
StripLeft(s, chars, i) ==
  IF i <= Len(s) /\ s[i] \in chars THEN StripLeft(s, chars, i + 1) ELSE i
StripRight(s, chars, i, j) ==
  IF j >= i /\ s[j] \in chars THEN StripRight(s, chars, i, j - 1) ELSE j

\* s.strip(chars), chars the set of characters to remove at both ends
Strip(s, chars) ==
  LET i == StripLeft(s, chars, 1)
  IN SubSeq(s, i, StripRight(s, chars, i, Len(s)))

\* str.startswith("_")
StartsWithUnderscore(s) == Len(s) >= 1 /\ s[1] = "_"

\* s.count(ch)
CountChar(s, ch) == Cardinality({i \in 1..Len(s) : s[i] = ch})

RECURSIVE Repeat(_, _)
Repeat(ch, n) == IF n = 0 THEN <<>> ELSE <<ch>> \o Repeat(ch, n - 1)

\* ------------------------------------------------------------ source files
NameF == <<"f">>
NameHelper == <<"_", "h">>
NameInit == <<"_", "_", "i", "n", "i", "t", "_", "_">>
NameC == <<"C">>
NoName == <<>>

FuncNames == {NameF, NameHelper, NameInit}

DefLines ==
  [kind : {"def"}, indent : 0..MaxLines - 1, name : FuncNames, variant : {"block"}]
ClassLines ==
  [kind : {"class"}, indent : 0..MaxLines - 1, name : {NameC}, variant : {"block"}]
StmtLines ==
  [kind : {"stmt"}, indent : 0..MaxLines - 1, name : {NoName}, variant : {"pass", "string"}]
CommentLines ==
  [kind : {"comment"}, indent : {0}, name : {NoName}, variant : {"wide", "widerun"}]

Lines == DefLines \cup ClassLines \cup StmtLines \cup CommentLines

\* the line opens an indented block on the following lines
Opens(l) ==
  l.kind \in {"def", "class", "if", "for", "while", "with", "try", "except"}

\* indentation rule of the grammar; the comment is a header comment and a
\* simple statement is the first statement of a block
CanFollow(p, l) ==
  IF p = <<>> THEN l.indent = 0
  ELSE /\ l.kind # "comment"
       /\ l.kind = "stmt" => Opens(p[Len(p)])
       /\ IF Opens(p[Len(p)]) THEN l.indent = p[Len(p)].indent + 1
          ELSE l.indent <= p[Len(p)].indent

RECURSIVE Programs(_)
Programs(n) ==
  IF n = 0 THEN {<<>>}
  ELSE LET P == Programs(n - 1)
       IN P \cup {Append(pl[1], pl[2]) :
                   pl \in {q \in {r \in P : Len(r) = n - 1} \X Lines :
                             CanFollow(q[1], q[2])}}

Complete(p) == p = <<>> \/ ~Opens(p[Len(p)])

\* the source files the analyzer is given
Sources == {p \in Programs(MaxLines) : Complete(p)}

\* ---------------------------------------------------------- code fragments
\* The fragments handed to analyze_complexity, extract_docstring and
\* get_function_signature: definitions with parameter lists and docstrings,
\* compound statements, and expression statements.  The name of a compound
\* or expression line is the sequence of its operands.  Classes are
\* top-level, functions are top-level or methods, and while and with
\* statements stand inside a block.
NameSelf == <<"s", "e", "l", "f">>
NameX == <<"x">>
NameY == <<"y">>

\* the parameter names of a definition line
Params(l) ==
  CASE l.variant = "self" -> <<NameSelf>>
    [] l.variant = "x" -> <<NameX>>
    [] l.variant = "self_x_y" -> <<NameSelf, NameX, NameY>>
    [] OTHER -> <<>>

\* x and x and ... and x, with n operators
Operands(n) == Repeat("x", n + 1)

FragDefLines ==
  [kind : {"def"}, indent : {0, 1}, name : {NameF}, variant : {"block"}]
  \cup [kind : {"def"}, indent : {0}, name : {NameF}, variant : {"self", "x", "self_x_y"}]
FragClassLines ==
  [kind : {"class"}, indent : {0}, name : {NameC}, variant : {"block"}]
CompoundLines ==
  [kind : {"if", "for", "try", "except"},
   indent : 0..MaxFragLines - 1, name : {Operands(0)}, variant : {"block"}]
  \cup [kind : {"while", "with"}, indent : 1..MaxFragLines - 1,
        name : {Operands(0)}, variant : {"block"}]
  \cup [kind : {"if"}, indent : {0, 1}, name : {Operands(1)}, variant : {"block"}]
FragStmtLines ==
  [kind : {"stmt"}, indent : 1..MaxFragLines - 1, name : {NoName},
   variant : {"pass", "string", "doc"}]
  \cup [kind : {"expr"}, indent : 1..MaxFragLines - 1, name : {Operands(2)},
        variant : {"cond"}]
ChainLines ==
  [kind : {"expr"}, indent : {0}, name : {Operands(n) : n \in 0..MaxOperators},
   variant : {"and"}]
FragCommentLines ==
  [kind : {"comment"}, indent : {0}, name : {NoName}, variant : {"wide"}]

FragLines ==
  FragDefLines \cup FragClassLines \cup CompoundLines \cup FragStmtLines
  \cup ChainLines \cup FragCommentLines

\* index of the last line of p indented at most d (0 when there is none)
RECURSIVE LastAtMost(_, _, _)
LastAtMost(p, d, j) ==
  IF j = 0 \/ p[j].indent <= d THEN j ELSE LastAtMost(p, d, j - 1)

\* the grammar's rules for the next line of a fragment: a simple statement
\* is the first statement of a block, a string statement the first statement
\* of a definition, an except clause continues a try statement, and the
\* top-level expression statements form fragments of their own, the longer
\* expressions first
FragCanFollow(p, l) ==
  IF p = <<>> THEN l.indent = 0 /\ l.kind # "except"
  ELSE LET last == p[Len(p)]
       IN /\ l.kind # "comment"
          /\ (last.kind = "expr" /\ last.indent = 0)
               <=> (l.kind = "expr" /\ l.indent = 0)
          /\ (l.kind = "expr" /\ l.indent = 0) => Len(l.name) <= Len(last.name)
          /\ (l.kind \in {"stmt", "expr"} /\ l.indent > 0) => Opens(last)
          /\ l.variant \in {"string", "doc"} => last.kind \in {"def", "class"}
          /\ IF Opens(last) THEN l.indent = last.indent + 1
             ELSE l.indent <= last.indent
          /\ l.kind = "except" =>
               /\ ~Opens(last)
               /\ LET j == LastAtMost(p, l.indent, Len(p))
                  IN j > 0 /\ p[j].indent = l.indent
                     /\ p[j].kind \in {"try", "except"}

RECURSIVE FragPrograms(_)
FragPrograms(n) ==
  IF n = 0 THEN {<<>>}
  ELSE LET P == FragPrograms(n - 1)
       IN P \cup {Append(pl[1], pl[2]) :
                   pl \in {q \in {r \in P : Len(r) = n - 1} \X FragLines :
                             FragCanFollow(q[1], q[2])}}

\* the code fragments of at most n lines the analyzer is given
Fragments(n) == {p \in FragPrograms(n) : Complete(p)}

\* ------------------------------------------------------------ session texts
\* The texts one caller hands to all four calls of an analyzer: texts with
\* no definition at all (empty, a comment, a bare expression), definitions
\* at module level, in a class body, under an if statement of a class body,
\* under a decorator and inside another function, and definitions whose name
\* the parser could not recover (their node has no name field).
SessionLines ==
  [kind : {"def"}, indent : 0..MaxSessionLines - 2,
   name : {NameF, NoName}, variant : {"block"}]
  \cup [kind : {"class"}, indent : {0}, name : {NameC, NoName}, variant : {"block"}]
  \cup [kind : {"if"}, indent : {0, 1}, name : {Operands(0)}, variant : {"block"}]
  \cup [kind : {"decorator"}, indent : {0, 1}, name : {NoName}, variant : {"block"}]
  \cup [kind : {"stmt"}, indent : 1..MaxSessionLines - 1, name : {NoName},
        variant : {"pass"}]
  \cup [kind : {"expr"}, indent : {0}, name : {Operands(0)}, variant : {"and"}]
  \cup [kind : {"comment"}, indent : {0}, name : {NoName}, variant : {"widerun"}]

\* a decorator is followed by the function definition it decorates
SessionCanFollow(p, l) ==
  /\ FragCanFollow(p, l)
  /\ (p # <<>> /\ p[Len(p)].kind = "decorator") =>
       (l.kind = "def" /\ l.indent = p[Len(p)].indent)

RECURSIVE SessionPrograms(_)
SessionPrograms(n) ==
  IF n = 0 THEN {<<>>}
  ELSE LET P == SessionPrograms(n - 1)
       IN P \cup {Append(pl[1], pl[2]) :
                   pl \in {q \in {r \in P : Len(r) = n - 1} \X SessionLines :
                             SessionCanFollow(q[1], q[2])}}

\* the texts of at most n lines one caller works on
SessionTexts(n) ==
  {p \in SessionPrograms(n) : Complete(p) /\ (p # <<>> => p[Len(p)].kind # "decorator")}

\* ------------------------------------------------------------ source text
Indentation(n) == Repeat(" ", n)

\* p1, p2, ..., from the i-th parameter on
RECURSIVE JoinParams(_, _)
JoinParams(ps, i) ==
  IF i > Len(ps) THEN <<>>
  ELSE (IF i > 1 THEN <<",", " ">> ELSE <<>>) \o ps[i] \o JoinParams(ps, i + 1)

\* the parameter list of a definition line, parentheses included
ParamsText(l) == <<"(">> \o JoinParams(Params(l), 1) \o <<")">>

\* x and x and ... and x
RECURSIVE JoinOperands(_, _)
JoinOperands(ops, i) ==
  IF i > Len(ops) THEN <<>>
  ELSE (IF i > 1 THEN <<" ", "a", "n", "d", " ">> ELSE <<>>) \o <<ops[i]>>
       \o JoinOperands(ops, i + 1)

LineBody(l) ==
  CASE l.kind = "def" -> <<"d", "e", "f", " ">> \o l.name \o ParamsText(l) \o <<":">>
    [] l.kind = "class" -> <<"c", "l", "a", "s", "s", " ">> \o l.name \o <<":">>
    [] l.kind = "stmt" ->
         (CASE l.variant = "pass" -> <<"p", "a", "s", "s">>
            [] l.variant = "string" -> <<"'", EAcute, "'">>
            [] l.variant = "doc" -> <<"\"", "\"", "\"", "h", "\"", "\"", "\"">>)
    [] l.kind = "if" -> <<"i", "f", " ">> \o JoinOperands(l.name, 1) \o <<":">>
    [] l.kind = "while" ->
         <<"w", "h", "i", "l", "e", " ">> \o JoinOperands(l.name, 1) \o <<":">>
    [] l.kind = "for" ->
         <<"f", "o", "r", " ", l.name[1], " ", "i", "n", " ", l.name[1], ":">>
    [] l.kind = "with" -> <<"w", "i", "t", "h", " ", l.name[1], ":">>
    [] l.kind = "try" -> <<"t", "r", "y", ":">>
    [] l.kind = "except" -> <<"e", "x", "c", "e", "p", "t", ":">>
    [] l.kind = "expr" ->
         IF l.variant = "cond"
         THEN <<l.name[1], " ", "i", "f", " ", l.name[2], " ",
                "e", "l", "s", "e", " ", l.name[3]>>
         ELSE JoinOperands(l.name, 1)
    [] l.kind = "decorator" -> <<"@", "d">>
    [] l.kind = "comment" ->
         CASE l.variant = "wide" -> <<"#", EAcute>>
           [] l.variant = "widerun" -> <<"#">> \o Repeat(Memo, WideRunLen)

LineText(l) == Indentation(l.indent) \o LineBody(l) \o <<"\n">>

\* the str the caller passes as file_content
RECURSIVE TextOfLines(_, _)
TextOfLines(src, n) ==
  IF n = 0 THEN <<>> ELSE TextOfLines(src, n - 1) \o LineText(src[n])

SourceText(src) == TextOfLines(src, Len(src))

\* ------------------------------------------------------------- syntax tree
\* parser.parse(bytes(file_content, "utf8")): the nodes of the tree of src.
\* A node is [tag, line, pos]: the module root, the statement (or except
\* clause) of a line, the block a line opens, or a token or expression of a
\* line; pos tells the identifiers and the nested boolean operators of one
\* line apart.
Root == [tag |-> "module", line |-> 0, pos |-> 0]
StmtNode(k) == [tag |-> "stmt", line |-> k, pos |-> 0]
BlockNode(k) == [tag |-> "block", line |-> k, pos |-> 0]
TokenNode(t, k) == [tag |-> t, line |-> k, pos |-> 0]
ExprNode(t, k, i) == [tag |-> t, line |-> k, pos |-> i]
NoNode == [tag |-> "none", line |-> 0, pos |-> 0]

\* last line of the block opened by line k (k itself when it opens none)
RECURSIVE LastLine(_, _, _)
LastLine(src, k, j) ==
  IF j < Len(src) /\ src[j + 1].indent > src[k].indent
  THEN LastLine(src, k, j + 1) ELSE j

BlockEnd(src, k) == LastLine(src, k, k)

\* last line of the except clauses that continue the try statement of line
\* k, whose lines so far end at line j
RECURSIVE ClausesEnd(_, _, _)
ClausesEnd(src, k, j) ==
  IF j < Len(src) /\ src[j + 1].kind = "except"
     /\ src[j + 1].indent = src[k].indent
  THEN ClausesEnd(src, k, BlockEnd(src, j + 1)) ELSE j

\* last line of the statement of line k
ExtentEnd(src, k) ==
  IF src[k].kind = "try" THEN ClausesEnd(src, k, BlockEnd(src, k))
  ELSE IF src[k].kind = "decorator" THEN BlockEnd(src, k + 1)
  ELSE BlockEnd(src, k)

\* line k is the definition a decorator on the line before it decorates
Decorated(src, k) ==
  k > 1 /\ src[k - 1].kind = "decorator" /\ src[k - 1].indent = src[k].indent

\* the except clauses of the try statement of line k, from line j on
RECURSIVE ExceptClauses(_, _, _)
ExceptClauses(src, k, j) ==
  IF j > ExtentEnd(src, k) THEN <<>>
  ELSE (IF src[j].kind = "except" /\ src[j].indent = src[k].indent
        THEN <<StmtNode(j)>> ELSE <<>>)
       \o ExceptClauses(src, k, j + 1)

\* the expression of n operators on line k: an identifier, or the boolean
\* operator whose left operand holds the other n - 1 operators
Expression(k, n) ==
  IF n = 0 THEN ExprNode("identifier", k, 1) ELSE ExprNode("boolean_operator", k, n)

\* the children of the parameter list of line k: ( p1 , p2 ... )
RECURSIVE ParamNodes(_, _, _)
ParamNodes(k, n, i) ==
  IF i > n THEN <<>>
  ELSE (IF i > 1 THEN <<TokenNode(",", k)>> ELSE <<>>)
       \o <<ExprNode("identifier", k, i)>> \o ParamNodes(k, n, i + 1)

NodeType(tree, n) ==
  CASE n.tag = "module" -> "module"
    [] n.tag = "block" -> "block"
    [] n.tag = "stmt" ->
         (CASE tree.lines[n.line].kind = "def" -> "function_definition"
            [] tree.lines[n.line].kind = "class" -> "class_definition"
            [] tree.lines[n.line].kind = "comment" -> "comment"
            [] tree.lines[n.line].kind = "stmt" ->
                 IF tree.lines[n.line].variant = "pass" THEN "pass_statement"
                 ELSE "expression_statement"
            [] tree.lines[n.line].kind = "if" -> "if_statement"
            [] tree.lines[n.line].kind = "for" -> "for_statement"
            [] tree.lines[n.line].kind = "while" -> "while_statement"
            [] tree.lines[n.line].kind = "with" -> "with_statement"
            [] tree.lines[n.line].kind = "try" -> "try_statement"
            [] tree.lines[n.line].kind = "except" -> "except_clause"
            [] tree.lines[n.line].kind = "expr" -> "expression_statement"
            [] tree.lines[n.line].kind = "decorator" -> "decorated_definition")
    [] n.tag = "name" -> "identifier"
    [] OTHER -> n.tag

\* the statements of lines lo..hi at indentation d, in source order
RECURSIVE StmtsAt(_, _, _, _)
StmtsAt(src, lo, hi, d) ==
  IF lo > hi THEN <<>>
  ELSE (IF src[lo].indent = d /\ src[lo].kind # "except" /\ ~Decorated(src, lo)
        THEN <<StmtNode(lo)>> ELSE <<>>)
       \o StmtsAt(src, lo + 1, hi, d)

\* node.children
Children(tree, n) ==
  CASE n.tag = "module" -> StmtsAt(tree.lines, 1, Len(tree.lines), 0)
    [] n.tag = "block" ->
         StmtsAt(tree.lines, n.line + 1, BlockEnd(tree.lines, n.line),
                 tree.lines[n.line].indent + 1)
    [] n.tag = "stmt" ->
         (CASE tree.lines[n.line].kind = "def" ->
                 <<TokenNode("def", n.line)>>
                 \o (IF tree.lines[n.line].name # NoName
                     THEN <<TokenNode("name", n.line)>> ELSE <<>>)
                 \o <<TokenNode("parameters", n.line), TokenNode(":", n.line),
                      BlockNode(n.line)>>
            [] tree.lines[n.line].kind = "class" ->
                 <<TokenNode("class", n.line)>>
                 \o (IF tree.lines[n.line].name # NoName
                     THEN <<TokenNode("name", n.line)>> ELSE <<>>)
                 \o <<TokenNode(":", n.line), BlockNode(n.line)>>
            [] tree.lines[n.line].kind = "decorator" ->
                 <<TokenNode("decorator", n.line), StmtNode(n.line + 1)>>
            [] tree.lines[n.line].kind = "stmt" ->
                 IF tree.lines[n.line].variant \in {"string", "doc"}
                 THEN <<TokenNode("string", n.line)>> ELSE <<>>
            [] tree.lines[n.line].kind \in {"if", "while"} ->
                 <<TokenNode(tree.lines[n.line].kind, n.line),
                   Expression(n.line, Len(tree.lines[n.line].name) - 1),
                   TokenNode(":", n.line), BlockNode(n.line)>>
            [] tree.lines[n.line].kind = "for" ->
                 <<TokenNode("for", n.line), ExprNode("identifier", n.line, 1),
                   TokenNode("in", n.line), ExprNode("identifier", n.line, 2),
                   TokenNode(":", n.line), BlockNode(n.line)>>
            [] tree.lines[n.line].kind = "with" ->
                 <<TokenNode("with", n.line), TokenNode("with_clause", n.line),
                   TokenNode(":", n.line), BlockNode(n.line)>>
            [] tree.lines[n.line].kind = "try" ->
                 <<TokenNode("try", n.line), TokenNode(":", n.line),
                   BlockNode(n.line)>>
                 \o ExceptClauses(tree.lines, n.line, n.line + 1)
            [] tree.lines[n.line].kind = "except" ->
                 <<TokenNode("except", n.line), TokenNode(":", n.line),
                   BlockNode(n.line)>>
            [] tree.lines[n.line].kind = "expr" ->
                 IF tree.lines[n.line].variant = "cond"
                 THEN <<TokenNode("conditional_expression", n.line)>>
                 ELSE <<Expression(n.line, Len(tree.lines[n.line].name) - 1)>>
            [] OTHER -> <<>>)
    [] n.tag = "parameters" ->
         <<TokenNode("(", n.line)>>
         \o ParamNodes(n.line, Len(Params(tree.lines[n.line])), 1)
         \o <<TokenNode(")", n.line)>>
    [] n.tag = "boolean_operator" ->
         <<Expression(n.line, n.pos - 1), TokenNode("and", n.line),
           ExprNode("identifier", n.line, n.pos + 1)>>
    [] n.tag = "conditional_expression" ->
         <<ExprNode("identifier", n.line, 1), TokenNode("if", n.line),
           ExprNode("identifier", n.line, 2), TokenNode("else", n.line),
           ExprNode("identifier", n.line, 3)>>
    [] n.tag = "with_clause" -> <<TokenNode("with_item", n.line)>>
    [] n.tag = "with_item" -> <<ExprNode("identifier", n.line, 1)>>
    [] OTHER -> <<>>

\* node.child_by_field_name(field)
ChildByFieldName(tree, n, field) ==
  IF n.tag = "stmt" /\ tree.lines[n.line].kind \in {"def", "class"}
  THEN CASE field = "name" /\ tree.lines[n.line].name # NoName ->
              TokenNode("name", n.line)
         [] field = "body" -> BlockNode(n.line)
         [] field = "parameters" /\ tree.lines[n.line].kind = "def" ->
              TokenNode("parameters", n.line)
         [] OTHER -> NoNode
  ELSE NoNode

\* byte offsets, in the UTF-8 buffer, of the first characters of lines
\* 1..n+1 of src (line n+1 starts where line n ends)
RECURSIVE LineStartBytes(_, _)
LineStartBytes(src, n) ==
  IF n = 0 THEN <<0>>
  ELSE LET before == LineStartBytes(src, n - 1)
       IN Append(before, before[n] + Utf8Len(LineText(src[n])))

\* parser.parse(bytes(file_content, "utf8")): the lines of the file with the
\* byte offset at which each line starts (and at which the buffer ends)
Parse(content) ==
  [root_node |-> Root,
   lines |-> content,
   line_start |-> LineStartBytes(content, Len(content))]

KeywordLen(l) == IF l.kind = "def" THEN 4 ELSE 6

\* bytes of the parameter list of l before its i-th parameter
RECURSIVE ParamOffset(_, _)
ParamOffset(l, i) ==
  IF i = 1 THEN 1 ELSE ParamOffset(l, i - 1) + Utf8Len(Params(l)[i - 1]) + 2

\* node.start_byte and node.end_byte of a statement, of a name token, of a
\* string, of a parameter list and of a parameter
StartByte(tree, n) ==
  CASE n.tag \in {"stmt", "string"} ->
         tree.line_start[n.line] + tree.lines[n.line].indent
    [] n.tag = "name" ->
         tree.line_start[n.line] + tree.lines[n.line].indent
         + KeywordLen(tree.lines[n.line])
    [] n.tag = "parameters" ->
         tree.line_start[n.line] + tree.lines[n.line].indent
         + KeywordLen(tree.lines[n.line]) + Utf8Len(tree.lines[n.line].name)
    [] n.tag = "identifier" /\ tree.lines[n.line].kind = "def" ->
         tree.line_start[n.line] + tree.lines[n.line].indent
         + KeywordLen(tree.lines[n.line]) + Utf8Len(tree.lines[n.line].name)
         + ParamOffset(tree.lines[n.line], n.pos)

EndByte(tree, n) ==
  CASE n.tag = "stmt" -> tree.line_start[ExtentEnd(tree.lines, n.line) + 1] - 1
    [] n.tag = "name" -> StartByte(tree, n) + Utf8Len(tree.lines[n.line].name)
    [] n.tag = "string" -> StartByte(tree, n) + Utf8Len(LineBody(tree.lines[n.line]))
    [] n.tag = "parameters" ->
         StartByte(tree, n) + Utf8Len(ParamsText(tree.lines[n.line]))
    [] n.tag = "identifier" /\ tree.lines[n.line].kind = "def" ->
         StartByte(tree, n) + Utf8Len(Params(tree.lines[n.line])[n.pos])

\* node.start_point[0] and node.end_point[0] of a statement
StartRow(tree, n) == n.line - 1
EndRow(tree, n) == ExtentEnd(tree.lines, n.line) - 1

\* -------------------------------------------------------------- schemas.py
FUNCTION == "function"
CLASS == "class"
METHOD == "method"

ValidationError == [error |-> "ValidationError"]

\* CodeSnippet(...): the validated record, or the validation failure.
\* node is the tree node the record is built from; it is no field of
\* CodeSnippet and is kept to relate a record to its definition.
CodeSnippet(id, code, code_type, file_path, line_start, line_end, node) ==
  IF \/ Len(code) < 1
     \/ IsBlank(code)
     \/ line_start < 1
     \/ line_end < 1
     \/ line_end < line_start
  THEN ValidationError
  ELSE [id |-> id, code |-> code, language |-> "python", code_type |-> code_type,
        file_path |-> file_path, line_start |-> line_start, line_end |-> line_end,
        node |-> node]

\* ------------------------------------------------------------ CodeAnalyzer
\* hashlib.sha256(content).hexdigest()[:16], taken as an ideal digest: equal
\* contents give equal digests and different contents different ones
Sha256Hex16(content) == <<"sha256/16", content>>

GenerateIdFromCodeOnly(code, file_path) == Sha256Hex16(code)

GenerateIdPerCall(code, file_path) ==
  Sha256Hex16(<<calls>> \o file_path \o <<":">> \o code)

GenerateId(code, file_path) == Sha256Hex16(file_path \o <<":">> \o code)

GetNodeText(tree, node, source_code) ==
  StrSlice(source_code, StartByte(tree, node), EndByte(tree, node))

NodeName(tree, node, source_code) ==
  LET name_node == ChildByFieldName(tree, node, "name")
  IN IF name_node # NoNode THEN GetNodeText(tree, name_node, source_code)
     ELSE <<"u", "n", "k", "n", "o", "w", "n">>

SkipsAnyPrivate(is_method, function_name) ==
  StartsWithUnderscore(function_name) /\ function_name # NameInit

\* "Skip private/dunder methods unless they're __init__"
SkipsPrivate(is_method, function_name) ==
  is_method /\ StartsWithUnderscore(function_name) /\ function_name # NameInit

LineNumberZeroBased(row) == row

\* node.start_point[0] + 1, node.end_point[0] + 1
LineNumber(row) == row + 1

SearchesAllChildren(type) == TRUE

\* "if node.type != 'function_definition'" before the search of the children
SearchesChildren(type) == type # "function_definition"

IsMethodBelowClass(type, is_method) == is_method \/ type = "class_definition"

\* the is_method the search of the children of a node of this type is given:
\* the caller's, passed on as it is
IsMethodBelow(type, is_method) == is_method

RECURSIVE ExtractFunctions(_, _, _, _, _), ExtractFunctionsOfAll(_, _, _, _, _)
ExtractFunctions(tree, node, source_code, file_path, is_method) ==
  LET found ==
        IF NodeType(tree, node) = "function_definition"
        THEN LET function_name == NodeName(tree, node, source_code)
             IN IF SkipsPrivate(is_method, function_name) THEN <<>>
                ELSE LET code == GetNodeText(tree, node, source_code)
                     IN <<CodeSnippet(GenerateId(code, file_path), code,
                                      IF is_method THEN METHOD ELSE FUNCTION,
                                      file_path,
                                      LineNumber(StartRow(tree, node)),
                                      LineNumber(EndRow(tree, node)),
                                      node)>>
        ELSE <<>>
  IN found \o
     (IF SearchesChildren(NodeType(tree, node))
      THEN ExtractFunctionsOfAll(tree, Children(tree, node), source_code,
                                 file_path,
                                 IsMethodBelow(NodeType(tree, node), is_method))
      ELSE <<>>)

\* the loop "for child in node.children: snippets.extend(...)"
ExtractFunctionsOfAll(tree, nodes, source_code, file_path, is_method) ==
  IF nodes = <<>> THEN <<>>
  ELSE ExtractFunctions(tree, Head(nodes), source_code, file_path, is_method)
       \o ExtractFunctionsOfAll(tree, Tail(nodes), source_code, file_path, is_method)

\* the loop over body_node.children that extracts the methods of a class
RECURSIVE ExtractMethods(_, _, _, _)
ExtractMethods(tree, nodes, source_code, file_path) ==
  IF nodes = <<>> THEN <<>>
  ELSE (IF NodeType(tree, Head(nodes)) = "function_definition"
        THEN ExtractFunctions(tree, Head(nodes), source_code, file_path, TRUE)
        ELSE <<>>)
       \o ExtractMethods(tree, Tail(nodes), source_code, file_path)

RecursesIntoAnyChild(type) == TRUE

\* "if child.type != 'class_definition'" in the search of the children
RecursesInto(type) == type # "class_definition"

RECURSIVE ExtractClasses(_, _, _, _), ExtractClassesOfAll(_, _, _, _)
ExtractClasses(tree, node, source_code, file_path) ==
  LET found ==
        IF NodeType(tree, node) = "class_definition"
        THEN LET code == GetNodeText(tree, node, source_code)
                 body_node == ChildByFieldName(tree, node, "body")
             IN <<CodeSnippet(GenerateId(code, file_path), code, CLASS, file_path,
                              LineNumber(StartRow(tree, node)),
                              LineNumber(EndRow(tree, node)),
                              node)>>
                \o (IF body_node # NoNode
                    THEN ExtractMethods(tree, Children(tree, body_node),
                                        source_code, file_path)
                    ELSE <<>>)
        ELSE <<>>
  IN found \o ExtractClassesOfAll(tree, Children(tree, node), source_code, file_path)

\* the loop "for child in node.children: if child.type != 'class_definition'"
ExtractClassesOfAll(tree, nodes, source_code, file_path) ==
  IF nodes = <<>> THEN <<>>
  ELSE (IF RecursesInto(NodeType(tree, Head(nodes)))
        THEN ExtractClasses(tree, Head(nodes), source_code, file_path)
        ELSE <<>>)
       \o ExtractClassesOfAll(tree, Tail(nodes), source_code, file_path)

\* the records parse_file collects: function pass, then class pass
Collected(content, file_path) ==
  LET tree == Parse(content)
      source_code == SourceText(content)
  IN ExtractFunctions(tree, tree.root_node, source_code, file_path, FALSE)
     \o ExtractClasses(tree, tree.root_node, source_code, file_path)

Raises(collected) == \E i \in 1..Len(collected) : collected[i] = ValidationError

ParseFileKeepsPartial(collected) ==
  [outcome |-> "returned",
   snippets |-> SelectSeq(collected, LAMBDA r : r # ValidationError)]

\* how parse_file ends: "except Exception: ... raise" lets the failure of a
\* record abort the call, and the local list of records is lost with it
ParseFileEnds(collected) ==
  IF Raises(collected) THEN [outcome |-> "raised", snippets |-> <<>>]
  ELSE [outcome |-> "returned", snippets |-> collected]

Paths == {<<"a">>, <<"b">>}

DecisionNodesWithoutExcept ==
  {"if_statement", "for_statement", "while_statement", "with_statement",
   "boolean_operator", "conditional_expression"}

\* decision_nodes of _calculate_cyclomatic_complexity
DecisionNodes ==
  {"if_statement", "for_statement", "while_statement", "except_clause",
   "with_statement", "boolean_operator", "conditional_expression"}

\* _calculate_cyclomatic_complexity(node, complexity): the count is threaded
\* through the children, left to right
RECURSIVE CalculateCyclomaticComplexity(_, _, _), CyclomaticOfAll(_, _, _, _)
CalculateCyclomaticComplexity(tree, node, complexity) ==
  CyclomaticOfAll(tree, Children(tree, node), Len(Children(tree, node)),
                  IF NodeType(tree, node) \in DecisionNodes
                  THEN complexity + 1 ELSE complexity)

\* the count after the loop over node.children has visited the first n
\* children; the count starts at 1 and only grows, and it is a number
\* before the next child is visited
CyclomaticOfAll(tree, children, n, complexity) ==
  IF n = 0 THEN complexity
  ELSE LET counted == CyclomaticOfAll(tree, children, n - 1, complexity)
       IN IF counted >= 1
          THEN CalculateCyclomaticComplexity(tree, children[n], counted)
          ELSE counted

NestingNodesWithoutTry ==
  {"if_statement", "for_statement", "while_statement", "with_statement",
   "function_definition", "class_definition"}

NestingNodesWithModule ==
  {"module", "if_statement", "for_statement", "while_statement",
   "with_statement", "try_statement", "function_definition", "class_definition"}

\* nesting_nodes of _calculate_nesting_depth
NestingNodes ==
  {"if_statement", "for_statement", "while_statement", "with_statement",
   "try_statement", "function_definition", "class_definition"}

\* _calculate_nesting_depth(node, current_depth)
RECURSIVE CalculateNestingDepth(_, _, _), NestingOfAll(_, _, _, _, _)
CalculateNestingDepth(tree, node, current_depth) ==
  LET depth == IF NodeType(tree, node) \in NestingNodes
               THEN current_depth + 1 ELSE current_depth
  IN NestingOfAll(tree, Children(tree, node), Len(Children(tree, node)),
                  depth, depth)

\* max_depth after the loop over node.children has visited the first n
\* children: max_depth = max(max_depth, child_depth)
NestingOfAll(tree, children, n, current_depth, max_depth) ==
  IF n = 0 THEN max_depth
  ELSE LET before == NestingOfAll(tree, children, n - 1, current_depth, max_depth)
           child_depth == CalculateNestingDepth(tree, children[n], current_depth)
       IN IF before >= child_depth THEN before ELSE child_depth

\* _count_parameters(node, source_code)
CountParameters(tree, node, source_code) ==
  IF NodeType(tree, node) = "function_definition"
  THEN LET params_node == ChildByFieldName(tree, node, "parameters")
       IN IF params_node # NoNode
          THEN Cardinality(
                 {i \in 1..Len(Children(tree, params_node)) :
                    LET child == Children(tree, params_node)[i]
                    IN /\ NodeType(tree, child) = "identifier"
                       /\ GetNodeText(tree, child, source_code) # NameSelf})
          ELSE 0
  ELSE 0

ComplexityRatingStrict(cyclomatic_complexity) ==
  IF cyclomatic_complexity < 5 THEN "simple"
  ELSE IF cyclomatic_complexity < 10 THEN "moderate"
  ELSE IF cyclomatic_complexity < 20 THEN "complex"
  ELSE "very complex"

\* the rating analyze_complexity adds to the metrics
ComplexityRating(cyclomatic_complexity) ==
  IF cyclomatic_complexity <= 5 THEN "simple"
  ELSE IF cyclomatic_complexity <= 10 THEN "moderate"
  ELSE IF cyclomatic_complexity <= 20 THEN "complex"
  ELSE "very complex"

\* analyze_complexity(code)
AnalyzeComplexityOf(frag) ==
  LET tree == Parse(frag)
      source_code == SourceText(frag)
      cyclomatic == CalculateCyclomaticComplexity(tree, tree.root_node, 1)
  IN [lines |-> CountChar(source_code, "\n") + 1,
      cyclomatic_complexity |-> cyclomatic,
      nesting_depth |-> CalculateNestingDepth(tree, tree.root_node, 0),
      num_parameters |-> CountParameters(tree, tree.root_node, source_code),
      complexity_rating |-> ComplexityRating(cyclomatic)]

\* Optional[str]: None, or a str
None == [is_none |-> TRUE, value |-> <<>>, node |-> NoNode]

\* the str a query returns; node is the definition it was taken from, which
\* is no part of the value and is kept to relate the value to the fragment
Some(text, node) == [is_none |-> FALSE, value |-> text, node |-> node]

\* the body of the loop of extract_docstring for one child of the root: the
\* cleaned text of the leading string statement of the definition, if any
DocstringOf(tree, node, source_code) ==
  LET body == ChildByFieldName(tree, node, "body")
      first_stmt == Children(tree, body)[1]
      string_node == IF Children(tree, first_stmt) # <<>>
                     THEN Children(tree, first_stmt)[1] ELSE NoNode
  IN IF /\ NodeType(tree, node) \in {"function_definition", "class_definition"}
        /\ body # NoNode /\ Children(tree, body) # <<>>
        /\ NodeType(tree, first_stmt) = "expression_statement"
        /\ string_node # NoNode /\ NodeType(tree, string_node) = "string"
     THEN Some(Strip(Strip(Strip(GetNodeText(tree, string_node, source_code),
                                {"\""}), {"'"}), {" ", "\n"}),
               node)
     ELSE None

RECURSIVE DocstringOfFirstDefinition(_, _, _, _)
DocstringOfFirstDefinition(tree, nodes, i, source_code) ==
  IF i > Len(nodes) THEN None
  ELSE IF NodeType(tree, nodes[i]) \in {"function_definition", "class_definition"}
       THEN DocstringOf(tree, nodes[i], source_code)
       ELSE DocstringOfFirstDefinition(tree, nodes, i + 1, source_code)

\* the loop of extract_docstring over the children of the root: it returns
\* at the first child that yields a docstring and falls through to
\* "return None" when none does
RECURSIVE FirstDocstring(_, _, _, _)
FirstDocstring(tree, nodes, i, source_code) ==
  IF i > Len(nodes) THEN None
  ELSE IF ~DocstringOf(tree, nodes[i], source_code).is_none
       THEN DocstringOf(tree, nodes[i], source_code)
       ELSE FirstDocstring(tree, nodes, i + 1, source_code)

\* extract_docstring(code)
ExtractDocstringOf(frag) ==
  LET tree == Parse(frag)
  IN FirstDocstring(tree, Children(tree, tree.root_node), 1, SourceText(frag))

\* the loop of get_function_signature over the children of the root
RECURSIVE FirstSignature(_, _, _, _)
FirstSignature(tree, nodes, i, source_code) ==
  IF i > Len(nodes) THEN None
  ELSE LET name_node == ChildByFieldName(tree, nodes[i], "name")
           params_node == ChildByFieldName(tree, nodes[i], "parameters")
       IN IF /\ NodeType(tree, nodes[i]) = "function_definition"
             /\ name_node # NoNode /\ params_node # NoNode
          THEN Some(GetNodeText(tree, name_node, source_code)
                    \o GetNodeText(tree, params_node, source_code),
                    nodes[i])
          ELSE FirstSignature(tree, nodes, i + 1, source_code)

\* get_function_signature(code)
GetFunctionSignatureOf(frag) ==
  LET tree == Parse(frag)
  IN FirstSignature(tree, Children(tree, tree.root_node), 1, SourceText(frag))

NoAnswer == [op |-> "none", result |-> None]

\* Parser(Language(tspython.language())): the parser __init__ stores
PythonParser == [language |-> "python"]

\* ------------------------------------------------------------ state machine
\* no recursive method is running
WalkIdle == walk = "none" /\ stack = <<>> /\ visited = <<>>

\* process_directory has not been called
DirIdle ==
  /\ directory = <<>>
  /\ recursive = TRUE
  /\ exclude_patterns = {}
  /\ python_files = <<>>
  /\ file_index = 0
  /\ file_results = {}
  /\ dir_pc = "idle"

\* batch_generate has not been called
LLMIdle ==
  /\ requests = <<>>
  /\ max_concurrent = 1
  /\ model_available = FALSE
  /\ batch_start = 0
  /\ pc = "idle"
  /\ tasks = <<>>
  /\ results = <<>>
  /\ pauses = 0

Init ==
  /\ file_content \in Sources
  /\ outcome = [a \in Analyzers |-> "idle"]
  /\ snippets = [a \in Analyzers |-> <<>>]
  /\ path = [a \in Analyzers |-> <<>>]
  /\ calls = 0
  /\ fragment = <<>>
  /\ answer = NoAnswer
  /\ parser = [a \in Analyzers |-> PythonParser]
  /\ WalkIdle
  /\ LLMIdle
  /\ DirIdle

ParseFileKeepingList(a, file_path) ==
  /\ calls < MaxCalls
  /\ \E ends \in {ParseFileEnds(Collected(file_content, file_path))} :
       /\ outcome' = [outcome EXCEPT ![a] = ends.outcome]
       /\ snippets' = [snippets EXCEPT ![a] = @ \o ends.snippets]
  /\ path' = [path EXCEPT ![a] = file_path]
  /\ calls' = calls + 1
  /\ UNCHANGED <<file_content, fragment, answer, parser, walkVars, llmVars, dirVars>>

\* analyzer.parse_file(file_content, file_path)
ParseFile(a, file_path) ==
  /\ calls < MaxCalls
  /\ \E ends \in {ParseFileEnds(Collected(file_content, file_path))} :
       /\ outcome' = [outcome EXCEPT ![a] = ends.outcome]
       /\ snippets' = [snippets EXCEPT ![a] = ends.snippets]
  /\ path' = [path EXCEPT ![a] = file_path]
  /\ calls' = calls + 1
  /\ UNCHANGED <<file_content, fragment, answer, parser, walkVars, llmVars, dirVars>>

Next == \E a \in Analyzers, file_path \in Paths : ParseFile(a, file_path)

Spec == Init /\ [][Next]_vars

\* the queries on a code fragment: no file has been parsed, the caller holds
\* a fragment and asks for its metrics, its docstring or its signature
InitQuery ==
  /\ fragment \in Fragments(MaxFragLines)
  /\ answer = NoAnswer
  /\ file_content = <<>>
  /\ outcome = [a \in Analyzers |-> "idle"]
  /\ snippets = [a \in Analyzers |-> <<>>]
  /\ path = [a \in Analyzers |-> <<>>]
  /\ calls = 0
  /\ parser = [a \in Analyzers |-> PythonParser]
  /\ WalkIdle
  /\ LLMIdle
  /\ DirIdle

\* analyzer.analyze_complexity(code)
AnalyzeComplexity ==
  /\ answer' = [op |-> "analyze_complexity", result |-> AnalyzeComplexityOf(fragment)]
  /\ UNCHANGED <<file_content, outcome, snippets, path, calls, fragment, parser,
                 walkVars, llmVars, dirVars>>

\* analyzer.extract_docstring(code)
ExtractDocstring ==
  /\ answer' = [op |-> "extract_docstring", result |-> ExtractDocstringOf(fragment)]
  /\ UNCHANGED <<file_content, outcome, snippets, path, calls, fragment, parser,
                 walkVars, llmVars, dirVars>>

\* analyzer.get_function_signature(code)
GetFunctionSignature ==
  /\ answer' = [op |-> "get_function_signature",
                result |-> GetFunctionSignatureOf(fragment)]
  /\ UNCHANGED <<file_content, outcome, snippets, path, calls, fragment, parser,
                 walkVars, llmVars, dirVars>>

NextQuery == AnalyzeComplexity \/ ExtractDocstring \/ GetFunctionSignature

SpecQuery == InitQuery /\ [][NextQuery]_vars

\* one caller and one analyzer: the caller hands the same text to parse_file
\* and to the three queries, in any order and any number of times
InitSession ==
  /\ file_content \in SessionTexts(MaxSessionLines)
  /\ fragment = file_content
  /\ answer = NoAnswer
  /\ outcome = [a \in Analyzers |-> "idle"]
  /\ snippets = [a \in Analyzers |-> <<>>]
  /\ path = [a \in Analyzers |-> <<>>]
  /\ calls = 0
  /\ parser = [a \in Analyzers |-> PythonParser]
  /\ WalkIdle
  /\ LLMIdle
  /\ DirIdle

NextSession ==
  \/ \E file_path \in Paths : ParseFile(1, file_path)
  \/ AnalyzeComplexity
  \/ ExtractDocstring
  \/ GetFunctionSignature

SpecSession == InitSession /\ [][NextSession]_vars

\* ------------------------------------------------------------ the recursion
\* The four recursive methods, call by call: _extract_functions,
\* _extract_classes, _calculate_cyclomatic_complexity and
\* _calculate_nesting_depth run on the root of the tree of a text; a call
\* loops over the children of its node and calls the method on a child, and
\* returns when the loop is over.
Walks ==
  {"_extract_functions", "_extract_classes",
   "_calculate_cyclomatic_complexity", "_calculate_nesting_depth"}

Call(fn, node) == [fn |-> fn, node |-> node]
Frame(node) == [node |-> node, next |-> 1]

\* the children the loop of a call of fn on node runs over
LoopChildren(fn, tree, node) ==
  IF fn = "_extract_functions" /\ ~SearchesChildren(NodeType(tree, node))
  THEN <<>> ELSE Children(tree, node)

\* the loop calls the method on this child (the loop of _extract_classes
\* leaves the class definitions out)
LoopCalls(fn, tree, child) ==
  fn = "_extract_classes" => RecursesInto(NodeType(tree, child))

CalledOnSelf(tree, node, next) == node

\* the node the call made for the next-th child of node runs on
CalledOn(tree, node, next) == Children(tree, node)[next]

\* the calls of _extract_functions a call of _extract_classes on node makes
\* before its loop: one per function definition among the children of the
\* body of a class definition
MethodCalls(tree, node) ==
  IF NodeType(tree, node) = "class_definition"
     /\ ChildByFieldName(tree, node, "body") # NoNode
  THEN LET body == Children(tree, ChildByFieldName(tree, node, "body"))
           defs == SelectSeq(body, LAMBDA c : NodeType(tree, c) = "function_definition")
       IN [i \in 1..Len(defs) |-> Call("_extract_functions", defs[i])]
  ELSE <<>>

InitWalk ==
  /\ fragment \in SessionTexts(MaxSessionLines - 1)
  /\ walk \in Walks
  /\ stack = <<Frame(Root)>>
  /\ visited = <<Call(walk, Root)>>
  /\ file_content = <<>>
  /\ answer = NoAnswer
  /\ outcome = [a \in Analyzers |-> "idle"]
  /\ snippets = [a \in Analyzers |-> <<>>]
  /\ path = [a \in Analyzers |-> <<>>]
  /\ calls = 0
  /\ parser = [a \in Analyzers |-> PythonParser]
  /\ LLMIdle
  /\ DirIdle

\* the loop of the running call reaches a child and calls the method on it
CallOnChild ==
  /\ stack # <<>>
  /\ \E tree \in {Parse(fragment)}, top \in {stack[Len(stack)]} :
       \E children \in {LoopChildren(walk, tree, top.node)} :
         /\ top.next <= Len(children)
         /\ LoopCalls(walk, tree, children[top.next])
         /\ \E callee \in {CalledOn(tree, top.node, top.next)} :
              /\ stack' = Append([stack EXCEPT ![Len(stack)].next = top.next + 1],
                                 Frame(callee))
              /\ visited' = Append(visited, Call(walk, callee))
                             \o (IF walk = "_extract_classes"
                                 THEN MethodCalls(tree, callee) ELSE <<>>)
  /\ UNCHANGED <<file_content, outcome, snippets, path, calls, fragment, answer,
                 parser, walk, llmVars, dirVars>>

\* the loop of the running call reaches a child it makes no call on
SkipChild ==
  /\ stack # <<>>
  /\ \E tree \in {Parse(fragment)}, top \in {stack[Len(stack)]} :
       \E children \in {LoopChildren(walk, tree, top.node)} :
         /\ top.next <= Len(children)
         /\ ~LoopCalls(walk, tree, children[top.next])
         /\ stack' = [stack EXCEPT ![Len(stack)].next = top.next + 1]
  /\ UNCHANGED <<file_content, outcome, snippets, path, calls, fragment, answer,
                 parser, walk, visited, llmVars, dirVars>>

\* the loop of the running call is over and the call returns
ReturnFromCall ==
  /\ stack # <<>>
  /\ \E tree \in {Parse(fragment)}, top \in {stack[Len(stack)]} :
       top.next > Len(LoopChildren(walk, tree, top.node))
  /\ stack' = SubSeq(stack, 1, Len(stack) - 1)
  /\ UNCHANGED <<file_content, outcome, snippets, path, calls, fragment, answer,
                 parser, walk, visited, llmVars, dirVars>>

NextWalk == CallOnChild \/ SkipChild \/ ReturnFromCall

\* a running call goes on until it returns
SpecWalk == InitWalk /\ [][NextWalk]_vars /\ WF_vars(NextWalk)

\* -------------------------------------------------------------- LLMManager
\* stop_after_attempt(3) of the retry decorator of generate_documentation
MaxAttempts == 3

\* the snippets of the tests: "test1", "test2", ...
TestSnippet(k) == [id |-> <<"test", k>>]

\* the lists of snippets batch_generate is given
Requests == {[k \in 1..n |-> TestSnippet(k)] : n \in 0..MaxSnippets}

\* the exceptions an attempt of generate_documentation can raise: the
\* ValueError of a model that is not available, or else a failure of the
\* model call or of the output parser inside chain.ainvoke
Exceptions(available) ==
  IF available THEN {"model failure", "parse failure"} ELSE {"ValueError"}

\* what an attempt that raises e leaves as the result of the call
Raised(e) == [exception |-> e]

\* isinstance(result, Exception)
IsException(result) == "exception" \in DOMAIN result

\* the call has no result yet
Pending == [pending |-> TRUE]

\* the result of an attempt that succeeds: result.snippet_id = snippet.id
GeneratedDocumentation(snippet) == [snippet_id |-> snippet.id]

\* a call of generate_documentation: its running first attempt
NewCall == [status |-> "running", attempt |-> 1, result |-> Pending]

StopAfterFourAttempts(attempt) == attempt >= MaxAttempts + 1

\* stop=stop_after_attempt(3): no retry after this attempt
StopAfterAttempt(attempt) == attempt >= MaxAttempts

Finished(call) == call.status \in {"returned", "raised"}

BatchOfAllRemaining(snips, start, limit) == (start + 1)..Len(snips)

\* snippets[i:i + max_concurrent], as positions of the list
Batch(snips, start, limit) == (start + 1)..Min(start + limit, Len(snips))

\* batch_results: what gather returns for the calls lo..hi, in the order of
\* the calls
RECURSIVE BatchResults(_, _, _)
BatchResults(calls_made, lo, hi) ==
  IF lo > hi THEN <<>>
  ELSE <<calls_made[lo].result>> \o BatchResults(calls_made, lo + 1, hi)

KeptWithExceptions(batch_results) == batch_results

\* the loop "for result in batch_results: if not isinstance(result,
\* Exception): results.append(result)"
Kept(batch_results) == SelectSeq(batch_results, LAMBDA r : ~IsException(r))

\* "if i + max_concurrent < len(snippets)": another batch follows
SleepsAfterBatch(snips, start, limit) == start + limit < Len(snips)

InitBatch ==
  /\ requests \in Requests
  /\ max_concurrent \in 1..MaxConcurrent
  /\ model_available \in BOOLEAN
  /\ batch_start = 0
  /\ pc = "loop"
  /\ tasks = <<>>
  /\ results = <<>>
  /\ pauses = 0
  /\ file_content = <<>>
  /\ fragment = <<>>
  /\ answer = NoAnswer
  /\ outcome = [a \in Analyzers |-> "idle"]
  /\ snippets = [a \in Analyzers |-> <<>>]
  /\ path = [a \in Analyzers |-> <<>>]
  /\ calls = 0
  /\ parser = [a \in Analyzers |-> PythonParser]
  /\ WalkIdle
  /\ DirIdle

analyzerVars ==
  <<file_content, outcome, snippets, path, calls, fragment, answer, parser>>

\* the for loop enters an iteration: gather starts one call per snippet of
\* the batch
StartBatch ==
  /\ pc = "loop"
  /\ batch_start < Len(requests)
  /\ tasks' = tasks \o [k \in 1..Cardinality(Batch(requests, batch_start,
                                                    max_concurrent)) |-> NewCall]
  /\ pc' = "gather"
  /\ UNCHANGED <<requests, max_concurrent, model_available, batch_start, results,
                 pauses, analyzerVars, walkVars, dirVars>>

\* the running attempt of call k returns its result
AttemptReturns(k) ==
  /\ tasks[k].status = "running"
  /\ model_available
  /\ tasks' = [tasks EXCEPT ![k].status = "returned",
                            ![k].result = GeneratedDocumentation(requests[k])]
  /\ UNCHANGED <<requests, max_concurrent, model_available, batch_start, pc,
                 results, pauses, analyzerVars, walkVars, dirVars>>

\* the running attempt of call k raises e: the decorator waits for a retry,
\* or re-raises e when it stops (reraise=True)
AttemptRaises(k, e) ==
  /\ tasks[k].status = "running"
  /\ e \in Exceptions(model_available)
  /\ tasks' = [tasks EXCEPT ![k].status = IF StopAfterAttempt(tasks[k].attempt)
                                          THEN "raised" ELSE "waiting",
                            ![k].result = Raised(e)]
  /\ UNCHANGED <<requests, max_concurrent, model_available, batch_start, pc,
                 results, pauses, analyzerVars, walkVars, dirVars>>

\* the wait of the decorator is over: the next attempt of call k starts
Retry(k) ==
  /\ tasks[k].status = "waiting"
  /\ tasks' = [tasks EXCEPT ![k].status = "running",
                            ![k].attempt = tasks[k].attempt + 1,
                            ![k].result = Pending]
  /\ UNCHANGED <<requests, max_concurrent, model_available, batch_start, pc,
                 results, pauses, analyzerVars, walkVars, dirVars>>

\* every call of the batch has finished: gather returns, the results that
\* are no exceptions are appended, and the loop sleeps or goes on
Collect ==
  /\ pc = "gather"
  /\ \A k \in 1..Len(tasks) : Finished(tasks[k])
  /\ results' = results \o Kept(BatchResults(tasks, batch_start + 1, Len(tasks)))
  /\ IF SleepsAfterBatch(requests, batch_start, max_concurrent)
     THEN pc' = "sleep" /\ batch_start' = batch_start /\ pauses' = pauses + 1
     ELSE pc' = "loop" /\ batch_start' = batch_start + max_concurrent
          /\ pauses' = pauses
  /\ UNCHANGED <<requests, max_concurrent, model_available, tasks,
                 analyzerVars, walkVars, dirVars>>

\* asyncio.sleep(1) is over: the loop goes on with the next batch
WakeUp ==
  /\ pc = "sleep"
  /\ pc' = "loop"
  /\ batch_start' = batch_start + max_concurrent
  /\ UNCHANGED <<requests, max_concurrent, model_available, tasks, results,
                 pauses, analyzerVars, walkVars, dirVars>>

\* the loop is over: batch_generate returns results
ReturnResults ==
  /\ pc = "loop"
  /\ batch_start >= Len(requests)
  /\ pc' = "done"
  /\ UNCHANGED <<requests, max_concurrent, model_available, batch_start, tasks,
                 results, pauses, analyzerVars, walkVars, dirVars>>

NextBatch ==
  \/ StartBatch
  \/ \E k \in 1..Len(tasks) : AttemptReturns(k)
  \/ \E k \in 1..Len(tasks), e \in Exceptions(model_available) : AttemptRaises(k, e)
  \/ \E k \in 1..Len(tasks) : Retry(k)
  \/ Collect
  \/ WakeUp
  \/ ReturnResults

SpecBatch == InitBatch /\ [][NextBatch]_vars

\* ------------------------------------------------------------ FileProcessor
\* the directory handed to process_directory, as str(Path(directory)) gives it
DirName == <<"d">>

\* the paths Path(directory).glob can yield, as str(file_path) gives them
DirPaths ==
  { <<"d", "/", "a", ".", "p", "y">>,
    <<"d", "/", "b", ".", "p", "y">>,
    <<"d", "/", "p", "/", "c", ".", "p", "y">>,
    <<"d", "/", "t", "e", "s", "t", "_", "a", ".", "p", "y">>,
    <<"d", "/", "v", "e", "n", "v", "/", "e", ".", "p", "y">>,
    <<"d", "/", "a", ".", "t", "x", "t">> }

\* what the files hold: nothing, one function, one function below a comment
\* with multi-byte characters
EmptyFile == <<>>
PlainFile ==
  << [kind |-> "def", indent |-> 0, name |-> NameF, variant |-> "block"],
     [kind |-> "stmt", indent |-> 1, name |-> NoName, variant |-> "pass"] >>
WideFile ==
  << [kind |-> "comment", indent |-> 0, name |-> NoName, variant |-> "widerun"] >>
  \o PlainFile

FileTexts == {EmptyFile, PlainFile, WideFile}

\* a file open() or read() fails on (no permission, a directory named *.py,
\* bytes that are not UTF-8), or a file with its text
Unreadable == [readable |-> FALSE, content |-> <<>>]
Readable(text) == [readable |-> TRUE, content |-> text]
FileStates == {Unreadable} \cup {Readable(text) : text \in FileTexts}

Directories ==
  UNION {[S -> FileStates] :
           S \in {T \in SUBSET DirPaths : Cardinality(T) <= MaxFiles}}

DefaultExcludePatterns ==
  { <<"t", "e", "s", "t", "_">>,
    <<"_", "_", "p", "y", "c", "a", "c", "h", "e", "_", "_">>,
    <<".", "g", "i", "t">>,
    <<"v", "e", "n", "v">> }

\* the exclude_patterns of test_process_current_project
TestExcludePatterns ==
  { <<"_", "_", "p", "y", "c", "a", "c", "h", "e", "_", "_">>,
    <<"t", "e", "s", "t", "_">> }

\* exclude_patterns or [...]: no argument is the empty set here
EffectivePatterns(patterns) ==
  IF patterns = {} THEN DefaultExcludePatterns ELSE patterns

\* pattern in str(file_path)
IsSubstring(pattern, s) ==
  \E i \in 0..(Len(s) - Len(pattern)) : SubSeq(s, i + 1, i + Len(pattern)) = pattern

\* the code point of a character of a path
Ord(ch) ==
  CASE ch = "." -> 46 [] ch = "/" -> 47 [] ch = "_" -> 95 [] ch = "a" -> 97
    [] ch = "b" -> 98 [] ch = "c" -> 99 [] ch = "d" -> 100 [] ch = "e" -> 101
    [] ch = "n" -> 110 [] ch = "p" -> 112 [] ch = "s" -> 115 [] ch = "t" -> 116
    [] ch = "v" -> 118 [] ch = "x" -> 120 [] ch = "y" -> 121

\* s < t on str
StrBefore(s, t) ==
  \E i \in 1..(Len(s) + 1) :
    /\ i - 1 <= Len(t)
    /\ \A j \in 1..(i - 1) : s[j] = t[j]
    /\ IF i = Len(s) + 1 THEN i <= Len(t)
       ELSE i <= Len(t) /\ Ord(s[i]) < Ord(t[i])

\* sorted(python_files)
RECURSIVE Sorted(_)
Sorted(S) ==
  IF S = {} THEN <<>>
  ELSE LET first == CHOOSE x \in S : \A y \in S \ {x} : StrBefore(x, y)
       IN <<first>> \o Sorted(S \ {first})

\* path.glob("**/*.py") or path.glob("*.py")
Glob(listing, is_recursive) ==
  {p \in DOMAIN listing :
     /\ Len(p) > 3
     /\ SubSeq(p, Len(p) - 2, Len(p)) = <<".", "p", "y">>
     /\ is_recursive \/ CountChar(SubSeq(p, Len(DirName) + 2, Len(p)), "/") = 0}

FindPythonFiles(listing, is_recursive, patterns) ==
  Sorted({p \in Glob(listing, is_recursive) :
            ~\E pattern \in patterns : IsSubstring(pattern, p)})

\* the body of the try of process_directory on one file: what it raises, or
\* the snippets parse_file returned
NoException == "none"
ReadAndParse(file, file_path) ==
  IF ~file.readable THEN [exception |-> "OSError", snippets |-> <<>>]
  ELSE LET ends == ParseFileEnds(Collected(file.content, file_path))
       IN IF ends.outcome = "raised"
          THEN [exception |-> "ValidationError", snippets |-> <<>>]
          ELSE [exception |-> NoException, snippets |-> ends.snippets]

\* except OSError: a handler that lets the exception of parse_file through
CaughtIfOSError(exception) == exception = "OSError"

\* except Exception
Caught(exception) == TRUE

\* results[file_path] = snippets
SetItem(dict, file_path, value) ==
  {entry \in dict : entry.file_path # file_path}
    \cup {[file_path |-> file_path, snippets |-> value]}

InitDirectory ==
  /\ directory \in Directories
  /\ recursive \in BOOLEAN
  /\ exclude_patterns \in {{}, TestExcludePatterns}
  /\ python_files = <<>>
  /\ file_index = 0
  /\ file_results = {}
  /\ dir_pc = "find"
  /\ file_content = <<>>
  /\ fragment = <<>>
  /\ answer = NoAnswer
  /\ outcome = [a \in Analyzers |-> "idle"]
  /\ snippets = [a \in Analyzers |-> <<>>]
  /\ path = [a \in Analyzers |-> <<>>]
  /\ calls = 0
  /\ parser = [a \in Analyzers |-> PythonParser]
  /\ WalkIdle
  /\ LLMIdle

\* python_files = self._find_python_files(directory, recursive, exclude_patterns)
FindFiles ==
  /\ dir_pc = "find"
  /\ python_files' =
       FindPythonFiles(directory, recursive, EffectivePatterns(exclude_patterns))
  /\ file_index' = 1
  /\ dir_pc' = "loop"
  /\ UNCHANGED <<directory, recursive, exclude_patterns, file_results,
                 analyzerVars, walkVars, llmVars>>

\* one turn of the loop in which the file is read and parsed
ProcessFile ==
  /\ dir_pc = "loop"
  /\ file_index <= Len(python_files)
  /\ \E file_path \in {python_files[file_index]} :
       \E done \in {ReadAndParse(directory[file_path], file_path)} :
         /\ done.exception = NoException
         /\ file_results' = SetItem(file_results, file_path, done.snippets)
  /\ file_index' = file_index + 1
  /\ UNCHANGED <<directory, recursive, exclude_patterns, python_files, dir_pc,
                 analyzerVars, walkVars, llmVars>>

\* one turn of the loop in which reading or parsing raises
FailOnFile ==
  /\ dir_pc = "loop"
  /\ file_index <= Len(python_files)
  /\ \E file_path \in {python_files[file_index]} :
       \E done \in {ReadAndParse(directory[file_path], file_path)} :
         /\ done.exception # NoException
         /\ IF Caught(done.exception)
            THEN file_index' = file_index + 1 /\ dir_pc' = dir_pc
            ELSE file_index' = file_index /\ dir_pc' = "raised"
  /\ UNCHANGED <<directory, recursive, exclude_patterns, python_files,
                 file_results, analyzerVars, walkVars, llmVars>>

\* return results
ReturnDictionary ==
  /\ dir_pc = "loop"
  /\ file_index > Len(python_files)
  /\ dir_pc' = "done"
  /\ UNCHANGED <<directory, recursive, exclude_patterns, python_files,
                 file_index, file_results, analyzerVars, walkVars, llmVars>>

NextDirectory == FindFiles \/ ProcessFile \/ FailOnFile \/ ReturnDictionary

SpecDirectory == InitDirectory /\ [][NextDirectory]_vars

\* ------------------------------------------------- vocabulary of the claims
Returned(a) == outcome[a] = "returned"

DefLinesOf(src) == {k \in 1..Len(src) : src[k].kind = "def"}
ClassLinesOf(src) == {k \in 1..Len(src) : src[k].kind = "class"}

\* the line whose block holds line k as a direct child; 0 for the module
ParentLine(src, k) ==
  IF src[k].indent = 0 THEN 0
  ELSE CHOOSE j \in 1..(k - 1) :
         /\ src[j].indent < src[k].indent
         /\ \A m \in (j + 1)..(k - 1) : src[m].indent >= src[k].indent

IsMethodLine(src, k) ==
  /\ src[k].kind = "def"
  /\ ParentLine(src, k) # 0
  /\ src[ParentLine(src, k)].kind = "class"

RECURSIVE InsideDef(_, _)
InsideDef(src, k) ==
  /\ ParentLine(src, k) # 0
  /\ \/ src[ParentLine(src, k)].kind = "def"
     \/ InsideDef(src, ParentLine(src, k))

IsPrivateName(name) == StartsWithUnderscore(name) /\ name # NameInit

\* positions of the records of analyzer a built from the definition of line k
RecordsOf(a, k) == {i \in 1..Len(snippets[a]) : snippets[a][i].node = StmtNode(k)}

\* the characters of s whose first byte lies in [sb, eb) of the UTF-8 buffer
\* the characters among the first n of s whose first byte lies in [sb, eb)
\* of the UTF-8 buffer
RECURSIVE ByteSpanUpTo(_, _, _, _)
ByteSpanUpTo(s, n, sb, eb) ==
  IF n = 0 THEN <<>>
  ELSE ByteSpanUpTo(s, n - 1, sb, eb)
       \o (IF Utf8LenUpTo(s, n - 1) >= sb /\ Utf8LenUpTo(s, n - 1) < eb
           THEN <<s[n]>> ELSE <<>>)

\* the text of the definition of line k: its [start_byte, end_byte) span
SpanText(src, k) ==
  ByteSpanUpTo(SourceText(src), Len(SourceText(src)),
               StartByte(Parse(src), StmtNode(k)), EndByte(Parse(src), StmtNode(k)))

Ids(records) == [i \in 1..Len(records) |-> records[i].id]

\* ------------------------------------------------------------------ claims

\* C1: parse_file returns exactly one CLASS record for every class-definition
\* node of the tree, at any depth (top level or nested in another class).
C1_OneClassRecordPerClass ==
  \A a \in Analyzers : Returned(a) =>
    \A k \in ClassLinesOf(file_content) :
      Cardinality({i \in RecordsOf(a, k) : snippets[a][i].code_type = CLASS}) = 1

\* C2: every function definition that is a direct child of a class body and
\* whose name does not start with "_" or is "__init__" appears in the result
\* of parse_file as a record tagged METHOD.
C2_PublicMethodsAreMethods ==
  \A a \in Analyzers : Returned(a) =>
    \A k \in DefLinesOf(file_content) :
      (IsMethodLine(file_content, k) /\ ~IsPrivateName(file_content[k].name)) =>
        \E i \in RecordsOf(a, k) : snippets[a][i].code_type = METHOD

\* C3: a method whose name starts with "_" and is not "__init__" is dropped:
\* no record of the result, of any kind, has the text and the line range of
\* that function definition.
C3_PrivateMethodsDropped ==
  \A a \in Analyzers : Returned(a) =>
    \A k \in DefLinesOf(file_content) :
      (IsMethodLine(file_content, k) /\ IsPrivateName(file_content[k].name)) =>
        ~\E i \in 1..Len(snippets[a]) :
            /\ snippets[a][i].code = SpanText(file_content, k)
            /\ snippets[a][i].line_start = k
            /\ snippets[a][i].line_end = ExtentEnd(file_content, k)

\* C4: every function definition that is a direct child of the module root,
\* whatever its name, yields a record tagged FUNCTION in the result of
\* parse_file.
C4_TopLevelFunctionsKept ==
  \A a \in Analyzers : Returned(a) =>
    \A k \in DefLinesOf(file_content) :
      file_content[k].indent = 0 =>
        \E i \in RecordsOf(a, k) : snippets[a][i].code_type = FUNCTION

C4_Witness ==
  \E a \in Analyzers : Returned(a) /\
    \E k \in DefLinesOf(file_content) :
      /\ file_content[k].indent = 0
      /\ IsPrivateName(file_content[k].name)
      /\ RecordsOf(a, k) # {}

\* C5: the result of parse_file never holds two records built from the same
\* tree node, under any tag.
C5_NoNodeEmittedTwice ==
  \A a \in Analyzers :
    \A i, j \in 1..Len(snippets[a]) :
      snippets[a][i].node = snippets[a][j].node => i = j

C5_Witness ==
  \E a \in Analyzers : Returned(a) /\
    \E k \in DefLinesOf(file_content) :
      /\ IsMethodLine(file_content, k)
      /\ ~IsPrivateName(file_content[k].name)
      /\ Cardinality(RecordsOf(a, k)) = 1

C7_CodeIsByteSpan ==
  \A a \in Analyzers : Returned(a) =>
    \A i \in 1..Len(snippets[a]) :
      snippets[a][i].code = SpanText(file_content, snippets[a][i].node.line)

\* C8: for every record, the number of line terminators in its code equals
\* line_end - line_start.
C8_TextAndLinesAgree ==
  \A a \in Analyzers : Returned(a) =>
    \A i \in 1..Len(snippets[a]) :
      CountChar(snippets[a][i].code, "\n")
        = snippets[a][i].line_end - snippets[a][i].line_start

\* C9: every record has line_start = (0-based start row of its node) + 1 and
\* line_end = (0-based end row of its node) + 1, so 1 <= line_start <= line_end.
C9_LinesAreOneBased ==
  \A a \in Analyzers : Returned(a) =>
    \A i \in 1..Len(snippets[a]) :
      LET r == snippets[a][i]
      IN /\ r.line_start = (r.node.line - 1) + 1
         /\ r.line_end = (ExtentEnd(file_content, r.node.line) - 1) + 1
         /\ 1 <= r.line_start
         /\ r.line_start <= r.line_end

C9_Witness ==
  \E a \in Analyzers : Returned(a) /\
    \E i \in 1..Len(snippets[a]) :
      /\ snippets[a][i].line_start > 1
      /\ snippets[a][i].line_end > snippets[a][i].line_start

C11_PathChangesId ==
  \A a, b \in Analyzers :
    (Returned(a) /\ Returned(b) /\ path[a] # path[b]) =>
      /\ Len(snippets[a]) = Len(snippets[b])
      /\ \A i \in 1..Len(snippets[a]) :
           /\ snippets[a][i].code = snippets[b][i].code
           /\ snippets[a][i].id # snippets[b][i].id

C11_Witness ==
  /\ Returned(1) /\ Returned(2)
  /\ path[1] # path[2]
  /\ snippets[1] # <<>>
  /\ snippets[1][1].code = snippets[2][1].code
  /\ snippets[1][1].id # snippets[2][1].id

\* C12: within the result of one parse_file call, two records of different
\* tree nodes have different ids, also when the two definitions have the same
\* source text.
C12_IdsUniqueInResult ==
  \A a \in Analyzers : Returned(a) =>
    \A i, j \in 1..Len(snippets[a]) :
      snippets[a][i].node # snippets[a][j].node
        => snippets[a][i].id # snippets[a][j].id

Analyzed == answer.op = "analyze_complexity"
DocstringAsked == answer.op = "extract_docstring"
SignatureAsked == answer.op = "get_function_signature"

\* the decision points the text of one line holds
DecisionsOnLine(l) ==
  CASE l.kind \in {"if", "while"} -> 1 + (Len(l.name) - 1)
    [] l.kind \in {"for", "with", "except"} -> 1
    [] l.kind = "expr" -> IF l.variant = "cond" THEN 1 ELSE Len(l.name) - 1
    [] OTHER -> 0

RECURSIVE DecisionsUpTo(_, _)
DecisionsUpTo(src, n) ==
  IF n = 0 THEN 0 ELSE DecisionsUpTo(src, n - 1) + DecisionsOnLine(src[n])

\* the nesting constructs around and including line k; an except clause
\* stands inside its try statement
RECURSIVE NestingAt(_, _)
NestingAt(src, k) ==
  (IF src[k].kind \in {"if", "for", "while", "with", "try", "def", "class", "except"}
   THEN 1 ELSE 0)
  + (IF ParentLine(src, k) = 0 THEN 0 ELSE NestingAt(src, ParentLine(src, k)))

MaxOf(S) == IF S = {} THEN 0 ELSE CHOOSE m \in S : \A x \in S : x <= m
MinOf(S) == CHOOSE m \in S : \A x \in S : m <= x

\* the top-level definitions of a fragment, and those that start with a
\* string statement
TopLevel(src, kinds) == {k \in 1..Len(src) : src[k].indent = 0 /\ src[k].kind \in kinds}
HasLeadingString(src, k) ==
  /\ k < Len(src)
  /\ src[k + 1].indent > src[k].indent
  /\ src[k + 1].kind = "stmt"
  /\ src[k + 1].variant \in {"string", "doc"}
Documented(src) ==
  {k \in TopLevel(src, {"def", "class"}) : HasLeadingString(src, k)}

\* what the string statement of line k says, quotes removed
DocContent(l) == IF l.variant = "doc" THEN <<"h">> ELSE <<EAcute>>

RatingRank(rating) ==
  CASE rating = "simple" -> 1
    [] rating = "moderate" -> 2
    [] rating = "complex" -> 3
    [] rating = "very complex" -> 4

\* ------------------------------------------------- the claims on fragments
\* C13: cyclomatic_complexity is 1 plus the number of decision nodes of the
\* fragment (if, for, while, except, with, boolean operator, conditional
\* expression), each counted once wherever it stands; it is at least 1, and
\* exactly 1 when the fragment holds no such node.
C13_CyclomaticCountsDecisions ==
  Analyzed =>
    /\ answer.result.cyclomatic_complexity
         = 1 + DecisionsUpTo(fragment, Len(fragment))
    /\ answer.result.cyclomatic_complexity >= 1

\* def f(): / if x and x: / for x in x: / pass
C13_Witness ==
  /\ Analyzed
  /\ Len(fragment) = 4
  /\ fragment[1].kind = "def"
  /\ fragment[2].kind = "if" /\ Len(fragment[2].name) = 2
  /\ fragment[3].kind = "for"
  /\ fragment[4].variant = "pass"
  /\ answer.result.cyclomatic_complexity = 4

\* C14: nesting_depth is the largest number of nesting constructs (if, for,
\* while, with, try, function, class) on a path from the root to a node, the
\* node included; it is 0 when there is none.
C14_NestingIsDeepestPath ==
  Analyzed =>
    /\ answer.result.nesting_depth
         = MaxOf({NestingAt(fragment, k) : k \in 1..Len(fragment)})
    /\ answer.result.nesting_depth >= 0

\* def f(): / for x in x: / if x: / pass
C14_Witness ==
  /\ Analyzed
  /\ Len(fragment) = 4
  /\ fragment[1].kind = "def" /\ fragment[1].indent = 0
  /\ fragment[2].kind = "for" /\ fragment[2].indent = 1
  /\ fragment[3].kind = "if" /\ fragment[3].indent = 2
  /\ fragment[4].variant = "pass"
  /\ answer.result.nesting_depth = 3

\* C15: for a fragment that is one function definition, num_parameters is
\* the number of parameters of the definition that are not named self.
C15_ParametersCounted ==
  (Analyzed /\ TopLevel(fragment, {"def"}) = {1}
            /\ {k \in 1..Len(fragment) : fragment[k].indent = 0} = {1}) =>
    answer.result.num_parameters
      = Cardinality({i \in 1..Len(Params(fragment[1])) :
                       Params(fragment[1])[i] # NameSelf})

\* C16: complexity_rating is "simple" up to 5, "moderate" from 6 to 10,
\* "complex" from 11 to 20 and "very complex" above 20; no smaller
\* complexity is rated higher.
C16_RatingBands ==
  Analyzed =>
    LET cc == answer.result.cyclomatic_complexity
        rating == answer.result.complexity_rating
    IN /\ rating \in {"simple", "moderate", "complex", "very complex"}
       /\ rating = "simple" <=> cc <= 5
       /\ rating = "moderate" <=> cc \in 6..10
       /\ rating = "complex" <=> cc \in 11..20
       /\ rating = "very complex" <=> cc > 20
       /\ \A c \in 1..cc :
            RatingRank(ComplexityRating(c)) <= RatingRank(rating)

C16_Witness ==
  /\ Analyzed
  /\ answer.result.cyclomatic_complexity = 21
  /\ answer.result.complexity_rating = "very complex"

\* C17 (as stated): extract_docstring consults only the first top-level
\* function or class definition of the fragment: when that definition does
\* not start with a string statement the result is None, also when a later
\* top-level definition has a docstring.
C17_OnlyFirstDefinition ==
  (DocstringAsked /\ TopLevel(fragment, {"def", "class"}) # {}) =>
    LET first == MinOf(TopLevel(fragment, {"def", "class"}))
    IN /\ answer.result.node \in {NoNode, StmtNode(first)}
       /\ ~HasLeadingString(fragment, first) => answer.result.is_none

\* C17 (amended): extract_docstring consults the top-level function and
\* class definitions in source order and answers from the first one that
\* starts with a string statement; the result is None only when no top-level
\* definition starts with a string statement.
C17_FirstDocumentedDefinition ==
  DocstringAsked =>
    IF Documented(fragment) = {} THEN answer.result.is_none
    ELSE /\ ~answer.result.is_none
         /\ answer.result.node = StmtNode(MinOf(Documented(fragment)))

\* the first definition has no docstring, a later one has, and the answer is
\* taken from the later one
C17_Witness ==
  /\ DocstringAsked
  /\ Documented(fragment) # {}
  /\ MinOf(TopLevel(fragment, {"def", "class"})) \notin Documented(fragment)
  /\ ~answer.result.is_none
  /\ answer.result.node = StmtNode(MinOf(Documented(fragment)))

\* C18: extract_docstring looks at the immediate children of the root only
\* and returns the cleaned text of the first body statement of the
\* definition when that statement is a bare string literal; when no
\* top-level definition starts with a string literal it returns None.
C18_DocstringIsCleanedText ==
  DocstringAsked =>
    IF Documented(fragment) = {} THEN answer.result.is_none
    ELSE /\ ~answer.result.is_none
         /\ answer.result.node \in {StmtNode(k) : k \in Documented(fragment)}
         /\ answer.result.value = DocContent(fragment[answer.result.node.line + 1])

\* C19: get_function_signature looks at the immediate children of the root
\* only, takes the first function definition among them and returns its name
\* followed by the text of its parameter list; it returns None when the
\* fragment has no top-level function.
C19_SignatureIsNameAndParameters ==
  SignatureAsked =>
    IF TopLevel(fragment, {"def"}) = {} THEN answer.result.is_none
    ELSE LET first == MinOf(TopLevel(fragment, {"def"}))
         IN /\ ~answer.result.is_none
            /\ answer.result.node = StmtNode(first)
            /\ answer.result.value
                 = fragment[first].name \o ParamsText(fragment[first])

\* C25: the clean-up of the docstring strips character sets: the returned
\* text is the string literal of the definition with its leading and
\* trailing double quotes removed, then its leading and trailing single
\* quotes, then the surrounding whitespace; it never begins or ends with
\* whitespace.
C25_CleanUpStripsCharacterSets ==
  (DocstringAsked /\ ~answer.result.is_none) =>
    /\ answer.result.value
         = Strip(Strip(Strip(LineBody(fragment[answer.result.node.line + 1]),
                             {"\""}), {"'"}), {" ", "\n"})
    /\ answer.result.value # <<>> =>
         /\ ~IsSpace(answer.result.value[1])
         /\ ~IsSpace(answer.result.value[Len(answer.result.value)])

\* ------------------------------------------------ the claims on one session
\* the text holds no decision point and no nesting construct
NoDecisionOrNesting(src) ==
  \A k \in 1..Len(src) :
    \/ src[k].kind = "comment"
    \/ src[k].kind = "expr" /\ src[k].variant = "and" /\ Len(src[k].name) = 1

\* C21: on a text with no matching construct every call returns a defined
\* result and never fails: with no decision point and no nesting construct
\* analyze_complexity reports complexity 1, depth 0, 0 parameters and
\* "simple"; with no top-level definition extract_docstring returns None;
\* with no top-level function get_function_signature returns None; with no
\* definition at all parse_file returns the empty list and does not raise.
C21_NothingFoundIsDefined ==
  /\ (Analyzed /\ NoDecisionOrNesting(fragment)) =>
       /\ answer.result.cyclomatic_complexity = 1
       /\ answer.result.nesting_depth = 0
       /\ answer.result.num_parameters = 0
       /\ answer.result.complexity_rating = "simple"
       /\ answer.result.lines = Len(fragment) + 1
  /\ (DocstringAsked /\ TopLevel(fragment, {"def", "class"}) = {}) =>
       answer.result = None
  /\ (SignatureAsked /\ TopLevel(fragment, {"def"}) = {}) =>
       answer.result = None
  /\ \A a \in Analyzers :
       (outcome[a] # "idle" /\ DefLinesOf(file_content) = {}
        /\ ClassLinesOf(file_content) = {}) =>
         (Returned(a) /\ snippets[a] = <<>>)

\* a text of bare expressions: parse_file returned the empty list and
\* analyze_complexity the report of a text without constructs
C21_Witness ==
  /\ Len(fragment) >= 2
  /\ NoDecisionOrNesting(fragment)
  /\ Returned(1) /\ snippets[1] = <<>>
  /\ Analyzed
  /\ answer.result.cyclomatic_complexity = 1
  /\ answer.result.nesting_depth = 0

\* the definitions whose node has no name field
Nameless(src) ==
  {k \in DefLinesOf(src) \cup ClassLinesOf(src) : src[k].name = NoName}

\* C22: a function or class definition node without a name field does not
\* abort the pass and still yields its record: parse_file returns, every
\* nameless definition outside a function body has its record (FUNCTION or
\* METHOD for a function, CLASS for a class), and the definitions after it
\* have theirs.
C22_NamelessStillRecorded ==
  \A a \in Analyzers :
    (outcome[a] # "idle" /\ Nameless(file_content) # {}
     /\ file_content[1].kind # "comment") =>
      /\ Returned(a)
      /\ \A k \in DefLinesOf(file_content) \cup ClassLinesOf(file_content) :
           (k >= MinOf(Nameless(file_content)) /\ ~InsideDef(file_content, k)) =>
             \E i \in RecordsOf(a, k) :
               snippets[a][i].code_type
                 = (IF file_content[k].kind = "class" THEN CLASS
                    ELSE snippets[a][i].code_type)

RECURSIVE NodesUnder(_, _, _)
NodesUnder(tree, node, stops) ==
  {node} \cup
  (IF NodeType(tree, node) \in stops THEN {}
   ELSE UNION {NodesUnder(tree, Children(tree, node)[i], stops) :
                 i \in 1..Len(Children(tree, node))})

\* the nodes a pass has to call itself on: all nodes of the tree for the two
\* metrics, the nodes that are not inside a function for the function pass,
\* the nodes that are neither a class nor inside one for the class pass
NodesOfWalk(fn, tree) ==
  CASE fn = "_extract_functions" ->
         NodesUnder(tree, tree.root_node, {"function_definition"})
    [] fn = "_extract_classes" ->
         {n \in NodesUnder(tree, tree.root_node, {"class_definition"}) :
            NodeType(tree, n) # "class_definition"}
    [] OTHER -> NodesUnder(tree, tree.root_node, {})

\* the running calls form a path of the tree: each runs on a child of the
\* node of its caller
StackIsPath ==
  LET tree == Parse(fragment)
  IN \A d \in 2..Len(stack) :
       \E i \in 1..Len(Children(tree, stack[d - 1].node)) :
         Children(tree, stack[d - 1].node)[i] = stack[d].node

VisitedOnce == \A i, j \in 1..Len(visited) : visited[i] = visited[j] => i = j

WalkDone == walk # "none" /\ stack = <<>>

RECURSIVE DocsOfReturned(_, _, _, _)
DocsOfReturned(calls_made, snips, lo, hi) ==
  IF lo > hi THEN <<>>
  ELSE (IF calls_made[lo].status = "returned"
        THEN <<[snippet_id |-> snips[lo].id]>> ELSE <<>>)
       \o DocsOfReturned(calls_made, snips, lo + 1, hi)

InFlight == {k \in 1..Len(tasks) : ~Finished(tasks[k])}

\* the batches started so far
BatchesStarted == (Len(tasks) + max_concurrent - 1) \div max_concurrent

\* C27: batch_generate returns exactly the documentation of the snippets
\* whose generation succeeded, in the order of the input list: a failed
\* generation is left out and neither aborts the batch nor removes or
\* reorders other results, so the result has between 0 and len(snippets)
\* entries.
C27_BatchKeepsSuccessesInOrder ==
  /\ pc = "done" =>
       /\ Len(tasks) = Len(requests)
       /\ \A k \in 1..Len(tasks) : Finished(tasks[k])
       /\ results = DocsOfReturned(tasks, requests, 1, Len(requests))
       /\ Len(results) \in 0..Len(requests)
  /\ pc \in {"gather"} =>
       results = DocsOfReturned(tasks, requests, 1, batch_start)

\* three snippets, the second failed: the documentation of the first and
\* of the third is returned
C27_Witness ==
  /\ pc = "done"
  /\ Len(requests) = 3
  /\ tasks[1].status = "returned"
  /\ tasks[2].status = "raised"
  /\ tasks[3].status = "returned"
  /\ results = <<[snippet_id |-> requests[1].id], [snippet_id |-> requests[3].id]>>

\* C28: at no time are more than max_concurrent calls of
\* generate_documentation in flight; the calls in flight belong to the
\* current batch, so a batch starts only when every call of the batches
\* before it has finished; batch_generate sleeps once between two
\* consecutive batches and not after the last one.
C28_BatchesAreBounded ==
  /\ Cardinality(InFlight) <= max_concurrent
  /\ \A k \in InFlight : k > batch_start /\ k <= batch_start + max_concurrent
  /\ pc = "sleep" => Len(tasks) < Len(requests)
  /\ pc \in {"gather", "done"} =>
       pauses = (IF BatchesStarted = 0 THEN 0 ELSE BatchesStarted - 1)
  /\ pc = "sleep" => pauses = BatchesStarted

\* the second batch is running after one pause, with max_concurrent calls
\* in flight
C28_Witness ==
  /\ pc = "gather"
  /\ max_concurrent = 2
  /\ batch_start = 2
  /\ Len(tasks) = 4
  /\ Cardinality(InFlight) = 2
  /\ pauses = 1

ReadsAndParses(file_path) ==
  /\ directory[file_path].readable
  /\ ParseFileEnds(Collected(directory[file_path].content, file_path)).outcome
       = "returned"

HasEntry(file_path) == \E entry \in file_results : entry.file_path = file_path

\* C30: process_directory isolates the failures of single files: a
\* discovered file has an entry in the returned dictionary if and only if
\* reading it and parse_file both succeeded; a failure on a file raises
\* nothing out of process_directory, and the files after it in sorted path
\* order are still processed.
C30_FailuresAreIsolated ==
  /\ dir_pc # "raised"
  /\ \A i, j \in 1..Len(python_files) :
       i < j => StrBefore(python_files[i], python_files[j])
  /\ \A i \in 1..Len(python_files) :
       HasEntry(python_files[i]) <=>
         (i < file_index /\ ReadsAndParses(python_files[i]))
  /\ dir_pc = "done" =>
       /\ file_index = Len(python_files) + 1
       /\ \A entry \in file_results :
            /\ \E i \in 1..Len(python_files) : python_files[i] = entry.file_path
            /\ entry.snippets =
                 Collected(directory[entry.file_path].content, entry.file_path)

\* a file that cannot be read, then a file parse_file raises on, then a file
\* whose function is in the returned dictionary
C30_Witness ==
  /\ dir_pc = "done"
  /\ Len(python_files) = 3
  /\ ~directory[python_files[1]].readable
  /\ directory[python_files[2]] = Readable(WideFile)
  /\ ~ReadsAndParses(python_files[2])
  /\ \E entry \in file_results :
       entry.file_path = python_files[3] /\ Len(entry.snippets) = 1
====
